---- MODULE Spec2Model ----
(***************************************************************************)
(* Model of the claims prediction pipeline:                                *)
(*   app/api/reports.py        predict_claims  (POST /reports/predict)     *)
(*   app/services/ml_service.py predict_claims_from_bytes                  *)
(*   app/ml/claims_predictor.py load_data, engineer_features,              *)
(*                              prepare_training_data, train_model,        *)
(*                              predict_pending                            *)
(* One request is served per behaviour.  The uploaded table is drawn from  *)
(* a bounded family in Init; what the random forest learns (its votes on   *)
(* each feature vector, its holdout hits, its importances) is drawn where  *)
(* the code calls the library.                                             *)
(***************************************************************************)
EXTENDS Integers, Sequences, FiniteSets, TLC

VARIABLES
    upload,          \* the UploadFile: [valid_type, header, rows]
    pc,              \* position in predict_claims / predict_claims_from_bytes
    steps,           \* pipeline functions entered so far, in call order
    tmp_exists,      \* the NamedTemporaryFile(delete=False) is on disk
    df,              \* the DataFrame: [columns, rows]
    encoders,        \* [le_type, le_amount_cat]: classes_ of the two LabelEncoders
    prep,            \* prepare_training_data's return: [df_train, df_pending, y, feature_cols]
    model,           \* the fitted RandomForestClassifier: [fitted, classes_, votes]
    stdout,          \* what train_model printed: [accuracy, feature_importance]
    predictions_df,  \* predict_pending's return: [none, rows]
    result,          \* predict_claims_from_bytes' return value
    returned,        \* predict_claims_from_bytes returned (did not raise)
    error,           \* the exception in flight: [type, msg]
    http_status      \* the response status of predict_claims, 0 while running

vars == <<upload, pc, steps, tmp_exists, df, encoders, prep, model, stdout,
          predictions_df, result, returned, error, http_status>>

-----------------------------------------------------------------------------
(* Bounds of the input family                                              *)

MaxRows == 6        \* data rows in the uploaded table

(* Program constants                                                       *)

n_estimators == 100         \* trees in the forest; votes are counted out of it
TestSizePercent == 30       \* test_size=0.3
MinTrainingClaims == 2      \* len(df_train) < 2
BinLow == 0                 \* pd.cut bins=[0, 150, 400, 2000]
BinMedium == 150
BinHigh == 400
BinTop == 2000

Required == {"ClaimID", "Status", "Amount", "Date", "Type"}

feature_cols == <<"Amount", "Type_Encoded", "DayOfWeek",
                  "Month", "DayOfMonth", "AmountCategory_Encoded">>

-----------------------------------------------------------------------------
(* Small helpers                                                           *)

Range(s) == {s[i] : i \in 1..Len(s)}

Max2(a, b) == IF a >= b THEN a ELSE b

RowMax(row) == CHOOSE m \in Range(row) : \A x \in Range(row) : x <= m

\* np.argmax: the index (0-based) of the FIRST maximal entry
ArgMax(row) ==
    (CHOOSE i \in 1..Len(row) :
        /\ row[i] = RowMax(row)
        /\ \A j \in 1..(i - 1) : row[j] < row[i]) - 1

Map(s, F(_)) == [i \in 1..Len(s) |-> F(s[i])]

NoError == [type |-> "None", msg |-> ""]
Err(t, m) == [type |-> t, msg |-> m]

-----------------------------------------------------------------------------
(* The uploaded tables                                                     *)

Statuses == {"Paid", "Denied", "Pending"}

BaseAmounts == <<100, 300, 1000>>
BaseTypes == <<"Dental", "Medical", "Vision">>
BaseDates == <<[m |-> 1, d |-> 6], [m |-> 2, d |-> 14], [m |-> 3, d |-> 30]>>

Cyc(s, i) == s[((i - 1) % Len(s)) + 1]

NumCell(v) == [num |-> TRUE, v |-> v]
TextCell == [num |-> FALSE, v |-> 0]                  \* e.g. "abc"
DateCell(md) == [ok |-> TRUE, m |-> md.m, d |-> md.d] \* 2025-mm-dd
BadDateCell == [ok |-> FALSE, m |-> 0, d |-> 0]       \* e.g. "not-a-date"

BaseRow(i, status) ==
    [ClaimID |-> 100 + i,
     Status  |-> status,
     Amount  |-> NumCell(Cyc(BaseAmounts, i)),
     Date    |-> DateCell(Cyc(BaseDates, i)),
     Type    |-> Cyc(BaseTypes, i)]

BaseTable(st) == [i \in 1..Len(st) |-> BaseRow(i, st[i])]

\* one edited cell: an unparsable or out-of-range value, or a foreign status
CellEdits == {"Amount:=abc", "Amount:=0", "Amount:=2500",
              "Date:=bad", "Status:=Cancelled"}

EditRow(row, e) ==
    CASE e = "Amount:=abc"       -> [row EXCEPT !.Amount = TextCell]
      [] e = "Amount:=0"         -> [row EXCEPT !.Amount = NumCell(0)]
      [] e = "Amount:=2500"      -> [row EXCEPT !.Amount = NumCell(2500)]
      [] e = "Date:=bad"         -> [row EXCEPT !.Date = BadDateCell]
      [] e = "Status:=Cancelled" -> [row EXCEPT !.Status = "Cancelled"]

StatusSeqs == UNION {[1..n -> Statuses] : n \in 0..MaxRows}

\* what is done to the well-formed table: nothing, one required column
\* dropped from the header, or one cell of the first row edited
Variants == {"none"} \cup Required \cup CellEdits

MakeUpload(st, v) ==
    [valid_type |-> TRUE,
     header |-> IF v \in Required THEN Required \ {v} ELSE Required,
     rows |-> IF v \in CellEdits /\ Len(st) > 0
              THEN [BaseTable(st) EXCEPT ![1] = EditRow(@, v)]
              ELSE BaseTable(st)]

\* zero bytes, and a file that is no CSV by name or content type
EmptyUpload == [valid_type |-> TRUE, header |-> {}, rows |-> <<>>]
WrongTypeUpload ==
    [valid_type |-> FALSE, header |-> Required, rows |-> BaseTable(<<"Paid">>)]

-----------------------------------------------------------------------------
(* claims_predictor.load_data                                              *)

\* returns [error, df]
load_data(file_exists, file) ==
    IF ~file_exists
    THEN [error |-> Err("FileNotFoundError", "File not found"), df |-> <<>>]
    ELSE IF file.header = {}
    THEN \* pd.errors.EmptyDataError, re-raised as ValueError
         [error |-> Err("ValueError", "File is empty"), df |-> <<>>]
    ELSE IF Len(file.rows) = 0
    THEN [error |-> Err("ValueError", "No data in file"), df |-> <<>>]
    ELSE [error |-> NoError,
          df |-> [columns |-> file.header, rows |-> file.rows]]

-----------------------------------------------------------------------------
(* claims_predictor.engineer_features                                      *)

\* Timestamp.dayofweek for a date of 2025 (Monday = 0; 2025-01-01 is a Wednesday)
DaysBefore == <<0, 31, 59, 90, 120, 151, 181, 212, 243, 273, 304, 334>>
DayOfWeek(date) == (2 + DaysBefore[date.m] + date.d - 1) % 7

\* pd.cut(bins=[0, 150, 400, 2000], labels=['Low', 'Medium', 'High']):
\* right-closed intervals, NaN outside them
AmountCategory(v) ==
    IF BinLow < v /\ v <= BinMedium THEN "Low"
    ELSE IF BinMedium < v /\ v <= BinHigh THEN "Medium"
    ELSE IF BinHigh < v /\ v <= BinTop THEN "High"
    ELSE "NaN"

\* the order np.unique / sorted() puts the labels in (NaN after the strings)
TypeOrder == <<"Dental", "Medical", "Vision">>
CategoryOrder == <<"High", "Low", "Medium", "NaN">>

\* LabelEncoder.fit: classes_ = sorted distinct values
LabelFit(values, order) ==
    LET Present(x) == x \in values IN SelectSeq(order, Present)

\* LabelEncoder.transform: the index of the value in classes_; -1 stands for
\* "y contains previously unseen labels"
LabelTransform(classes, v) ==
    IF v \in Range(classes)
    THEN (CHOOSE i \in 1..Len(classes) : classes[i] = v) - 1
    ELSE -1

Engineered(row, le_type, le_amount_cat) ==
    [ClaimID |-> row.ClaimID,
     Status |-> row.Status,
     Amount |-> row.Amount.v,
     Type |-> row.Type,
     Date |-> [m |-> row.Date.m, d |-> row.Date.d],
     DayOfWeek |-> DayOfWeek(row.Date),
     Month |-> row.Date.m,
     DayOfMonth |-> row.Date.d,
     AmountCategory |-> AmountCategory(row.Amount.v),
     Type_Encoded |-> LabelTransform(le_type, row.Type),
     AmountCategory_Encoded |->
         LabelTransform(le_amount_cat, AmountCategory(row.Amount.v))]

EngFail(e) == [error |-> e, df |-> <<>>, le_type |-> <<>>, le_amount_cat |-> <<>>]

\* the rows a fit_transform call sees: engineer_features runs on the whole
\* frame, before prepare_training_data partitions it
EncoderFitRows_resolved(rows) == SelectSeq(rows, LAMBDA r : r.Status # "Pending")
EncoderFitRows(rows) == rows

\* returns [error, df, le_type, le_amount_cat].  nan_sorts: the installed
\* LabelEncoder accepts NaN among string labels (it sorts NaN last); older
\* releases raise TypeError from sorted().
engineer_features(d, nan_sorts) ==
    LET rows == d.rows
        N == 1..Len(rows)
    IN  IF "Date" \notin d.columns
        THEN EngFail(Err("KeyError", "Date"))
        ELSE IF \E i \in N : ~rows[i].Date.ok
        THEN \* pd.to_datetime without errors='coerce'
             EngFail(Err("ValueError", "Unknown datetime string format"))
        ELSE IF "Amount" \notin d.columns
        THEN EngFail(Err("KeyError", "Amount"))
        ELSE IF \E i \in N : ~rows[i].Amount.num
        THEN \* pd.cut on an object column
             EngFail(Err("TypeError", "'<' not supported between 'int' and 'str'"))
        ELSE IF "Type" \notin d.columns
        THEN EngFail(Err("KeyError", "Type"))
        ELSE
        LET cats == {AmountCategory(rows[i].Amount.v) : i \in N}
            fit == EncoderFitRows(rows)
            F == 1..Len(fit)
            le_type == LabelFit({fit[i].Type : i \in F}, TypeOrder)
            le_cat == LabelFit({AmountCategory(fit[i].Amount.v) : i \in F},
                               CategoryOrder)
            out == [i \in N |-> Engineered(rows[i], le_type, le_cat)]
        IN  IF "NaN" \in cats /\ cats # {"NaN"} /\ ~nan_sorts
            THEN EngFail(Err("TypeError", "'<' not supported between 'float' and 'str'"))
            ELSE IF \E i \in N :
                      out[i].Type_Encoded = -1 \/ out[i].AmountCategory_Encoded = -1
            THEN EngFail(Err("ValueError", "y contains previously unseen labels"))
            ELSE IF ~({"ClaimID", "Status"} \subseteq d.columns)
            THEN \* print(df[['ClaimID', 'Status', ...]].head())
                 EngFail(Err("KeyError", "not in index"))
            ELSE [error |-> NoError,
                  df |-> [columns |-> d.columns \cup
                            {"DayOfWeek", "Month", "DayOfMonth", "AmountCategory",
                             "Type_Encoded", "AmountCategory_Encoded"},
                          rows |-> out],
                  le_type |-> le_type, le_amount_cat |-> le_cat]

-----------------------------------------------------------------------------
(* claims_predictor.prepare_training_data                                  *)

FeatureVector(row) == [i \in 1..Len(feature_cols) |-> row[feature_cols[i]]]

IsResolved_PaidOrDenied(row) == row.Status \in {"Paid", "Denied"}
IsResolved(row) == row.Status # "Pending"          \* df['Status'] != 'Pending'
IsPending(row) == row.Status = "Pending"           \* df['Status'] == 'Pending'

Target(row) == IF row.Status = "Denied" THEN 1 ELSE 0

\* returns X, y, df_train, df_pending, feature_cols
prepare_training_data(d) ==
    LET df_train == SelectSeq(d.rows, IsResolved)
        df_pending == SelectSeq(d.rows, IsPending)
    IN  [X |-> Map(df_train, FeatureVector),
         y |-> Map(df_train, Target),
         df_train |-> df_train,
         df_pending |-> df_pending,
         feature_cols |-> feature_cols]

\* ml_service: len(df_train) < 2
TooFewTrainingClaims_empty_only(df_train) == Len(df_train) < 1
TooFewTrainingClaims(df_train) == Len(df_train) < MinTrainingClaims

-----------------------------------------------------------------------------
(* claims_predictor.train_model                                            *)

Count(y, c) == Cardinality({i \in 1..Len(y) : y[i] = c})

\* train_test_split(test_size=0.3): n_test = ceil(0.3 n), n_train = floor(0.7 n)
NTest(n) == (TestSizePercent * n + 99) \div 100
NTrain(n) == ((100 - TestSizePercent) * n) \div 100

\* the ValueErrors of train_test_split(..., stratify=y), "" when it splits
SplitError(y) ==
    LET n == Len(y)
        classes == Range(y)
    IN  IF NTrain(n) = 0
        THEN "the resulting train set will be empty"
        ELSE IF \E c \in classes : Count(y, c) < 2
        THEN "The least populated class in y has only 1 member"
        ELSE IF NTrain(n) < Cardinality(classes) \/ NTest(n) < Cardinality(classes)
        THEN "should be greater or equal to the number of classes"
        ELSE ""

\* np.unique(y): the classes the forest knows, ascending
Classes(y) == SelectSeq(<<0, 1>>, LAMBDA c : c \in Range(y))

NotFitted == [fitted |-> FALSE, classes_ |-> <<>>, votes |-> <<>>]
NothingPrinted == [accuracy |-> <<>>, feature_importance |-> <<>>]

\* returns [error, model, printed].  fit is what the library call learns:
\*   fit.votes       feature vector -> trees (of n_estimators) voting Denied
\*   fit.hits        holdout rows predicted right
\*   fit.importances feature_importances_, in percent, by feature name
train_model(X, y, fit) ==
    IF SplitError(y) # ""
    THEN [error |-> Err("ValueError", SplitError(y)),
          model |-> NotFitted, printed |-> NothingPrinted]
    ELSE
    LET fitted == [fitted |-> TRUE, classes_ |-> Classes(y), votes |-> fit.votes]
        \* accuracy_score(y_test, y_pred), printed only
        accuracy == <<fit.hits, NTest(Len(y))>>
    IN  \* classification_report(target_names=['Paid', 'Denied']): the labels of
        \* y_test and y_pred; a stratified holdout carries every class of y
        IF Len(Classes(y)) # 2
        THEN [error |-> Err("ValueError",
                            "Number of classes does not match size of target_names"),
              model |-> NotFitted,
              printed |-> [accuracy |-> accuracy, feature_importance |-> <<>>]]
        ELSE [error |-> NoError,
              model |-> fitted,
              printed |-> [accuracy |-> accuracy,
                           feature_importance |->
                               [c \in Range(feature_cols) |-> fit.importances[c]]]]

-----------------------------------------------------------------------------
(* claims_predictor.predict_pending                                        *)

\* model.predict_proba: one column per class of classes_, rows summing to 1
\* (counted in trees out of n_estimators)
PredictProba(m, x) ==
    IF Len(m.classes_) = 2
    THEN <<n_estimators - m.votes[x], m.votes[x]>>
    ELSE <<n_estimators>>

\* model.predict: classes_.take(argmax(predict_proba))
PredictClass_ties_high(m, x) ==
    LET p == PredictProba(m, x)
    IN  IF Len(p) = 2 /\ p[2] >= p[1] THEN m.classes_[2] ELSE m.classes_[1]
PredictClass(m, x) == m.classes_[ArgMax(PredictProba(m, x)) + 1]

Confidence_of_denial(p) == p[Len(p)]
Confidence(p) == RowMax(p)                         \* probabilities.max(axis=1)

NoPredictions == [none |-> TRUE, rows |-> <<>>]

PendingOrder_reversed(df_pending) ==
    [i \in 1..Len(df_pending) |-> df_pending[Len(df_pending) + 1 - i]]
PendingOrder(df_pending) == df_pending             \* df_pending[[...]].copy()

\* returns [error, results]
predict_pending(m, df_pending, cols) ==
    IF Len(df_pending) = 0
    THEN [error |-> NoError, results |-> NoPredictions]
    ELSE IF Len(m.classes_) < 2
    THEN \* probabilities[:, 1] on a one-column array
         [error |-> Err("IndexError", "index 1 is out of bounds for axis 1"),
          results |-> NoPredictions]
    ELSE
    LET Result(row) ==
            LET p == PredictProba(m, FeatureVector(row))
            IN  [ClaimID |-> row.ClaimID,
                 Amount |-> row.Amount,
                 Type |-> row.Type,
                 Date |-> row.Date,
                 Predicted_Status |->
                     IF PredictClass(m, FeatureVector(row)) = 1
                     THEN "Denied" ELSE "Paid",
                 Denial_Probability |-> p[2],
                 Confidence |-> Confidence(p)]
    IN  [error |-> NoError,
         results |-> [none |-> FALSE,
                      rows |-> Map(PendingOrder(df_pending), Result)]]

-----------------------------------------------------------------------------
(* ml_service.predict_claims_from_bytes: the response object               *)

\* str(pd.Timestamp): "2025-mm-dd 00:00:00"
TimestampStr(ts) == <<2025, ts.m, ts.d, 0, 0, 0>>

\* predictions_df.to_dict('records'), made JSON-safe
JsonRecord(row) == [row EXCEPT !.Date = TimestampStr(@)]

NoResult ==
    [total_claims |-> 0, training_claims |-> 0, pending_claims |-> 0,
     predictions |-> <<>>,
     model_metrics |-> [accuracy |-> <<>>, feature_importance |-> <<>>],
     summary |-> [paid_count |-> 0, denied_count |-> 0, pending_count |-> 0]]

BuildResult(d, p, preds) ==
    [total_claims |-> Len(d.rows),
     training_claims |-> Len(p.df_train),
     pending_claims |-> Len(p.df_pending),
     predictions |->
         IF ~preds.none /\ Len(preds.rows) > 0
         THEN Map(preds.rows, JsonRecord) ELSE <<>>,
     \* "accuracy": None, "feature_importance": {}
     model_metrics |-> [accuracy |-> <<>>, feature_importance |-> <<>>],
     summary |->
         [paid_count |-> Len(SelectSeq(p.df_train, LAMBDA r : r.Status = "Paid")),
          denied_count |-> Len(SelectSeq(p.df_train, LAMBDA r : r.Status = "Denied")),
          pending_count |-> Len(p.df_pending)]]

-----------------------------------------------------------------------------
(* What a fit can learn                                                    *)

\* trees (of n_estimators) voting Denied for a feature vector
VoteLevels == {0, 50, 80}

\* feature_importances_ in percent (they sum to 100); their values steer
\* nothing in the pipeline, so one ranking stands for all
ImportanceChoices ==
    {[c \in Range(feature_cols) |-> IF c = "Amount" THEN 50 ELSE 10]}

-----------------------------------------------------------------------------
(* The state machine                                                       *)

EmptyFrame == [columns |-> {}, rows |-> <<>>]
NoEncoders == [le_type |-> <<>>, le_amount_cat |-> <<>>]
NoPrep == [X |-> <<>>, y |-> <<>>, df_train |-> <<>>, df_pending |-> <<>>,
           feature_cols |-> <<>>]

Init ==
    /\ \/ \E st \in StatusSeqs, v \in Variants : upload = MakeUpload(st, v)
       \/ upload \in {EmptyUpload, WrongTypeUpload}
    /\ pc = "predict_claims"
    /\ steps = <<>>
    /\ tmp_exists = FALSE
    /\ df = EmptyFrame
    /\ encoders = NoEncoders
    /\ prep = NoPrep
    /\ model = NotFitted
    /\ stdout = NothingPrinted
    /\ predictions_df = NoPredictions
    /\ result = NoResult
    /\ returned = FALSE
    /\ error = NoError
    /\ http_status = 0

\* where control goes after a pipeline step: on, or to the finally block
After_cleanup_on_success_only(e, next) == IF e = NoError THEN next ELSE "respond"
After(e, next) == IF e = NoError THEN next ELSE "finally"

\* reports.predict_claims, up to the call of the service
Validate ==
    /\ pc = "predict_claims"
    /\ IF ~upload.valid_type \/ (upload.header = {} /\ upload.rows = <<>>)
       THEN /\ http_status' = 400
            /\ pc' = "done"
       ELSE /\ http_status' = http_status
            /\ pc' = "write_temp"
    /\ UNCHANGED <<upload, steps, tmp_exists, df, encoders, prep, model, stdout,
                   predictions_df, result, returned, error>>

\* with tempfile.NamedTemporaryFile(mode='wb', suffix='.csv', delete=False)
WriteTemp ==
    /\ pc = "write_temp"
    /\ tmp_exists' = TRUE
    /\ pc' = "load_data"
    /\ UNCHANGED <<upload, steps, df, encoders, prep, model, stdout,
                   predictions_df, result, returned, error, http_status>>

Load ==
    /\ pc = "load_data"
    /\ LET r == load_data(tmp_exists, upload)
       IN  /\ df' = IF r.error = NoError THEN r.df ELSE df
           /\ error' = r.error
           /\ pc' = After(r.error, "engineer_features")
    /\ steps' = Append(steps, "load_data")
    /\ UNCHANGED <<upload, tmp_exists, encoders, prep, model, stdout,
                   predictions_df, result, returned, http_status>>

Engineer ==
    /\ pc = "engineer_features"
    /\ \E nan_sorts \in BOOLEAN :
         LET r == engineer_features(df, nan_sorts)
         IN  /\ df' = IF r.error = NoError THEN r.df ELSE df
             /\ encoders' = IF r.error = NoError
                            THEN [le_type |-> r.le_type,
                                  le_amount_cat |-> r.le_amount_cat]
                            ELSE encoders
             /\ error' = r.error
             /\ pc' = After(r.error, "prepare_training_data")
    /\ steps' = Append(steps, "engineer_features")
    /\ UNCHANGED <<upload, tmp_exists, prep, model, stdout,
                   predictions_df, result, returned, http_status>>

Prepare ==
    /\ pc = "prepare_training_data"
    /\ prep' = prepare_training_data(df)
    /\ pc' = "check_training_data"
    /\ steps' = Append(steps, "prepare_training_data")
    /\ UNCHANGED <<upload, tmp_exists, df, encoders, model, stdout,
                   predictions_df, result, returned, error, http_status>>

\* if len(df_train) < 2: raise ValueError("Insufficient training data. ...")
CheckTrainingData ==
    /\ pc = "check_training_data"
    /\ error' = IF TooFewTrainingClaims(prep.df_train)
                THEN Err("ValueError", "Insufficient training data")
                ELSE NoError
    /\ pc' = After(error', "train_model")
    /\ UNCHANGED <<upload, steps, tmp_exists, df, encoders, prep, model, stdout,
                   predictions_df, result, returned, http_status>>

Train ==
    /\ pc = "train_model"
    /\ \E votes \in [{FeatureVector(prep.df_pending[i]) :
                        i \in 1..Len(prep.df_pending)} -> VoteLevels],
          hits \in 0..NTest(Len(prep.y)),
          importances \in ImportanceChoices :
         \* a forest that knows one class predicts it for every holdout row
         /\ Len(Classes(prep.y)) < 2 => hits = NTest(Len(prep.y))
         /\ LET r == train_model(prep.X, prep.y,
                                 [votes |-> votes, hits |-> hits,
                                  importances |-> importances])
            IN  /\ model' = r.model
                /\ stdout' = r.printed
                /\ error' = r.error
                /\ pc' = After(r.error, "predict_pending")
    /\ steps' = Append(steps, "train_model")
    /\ UNCHANGED <<upload, tmp_exists, df, encoders, prep,
                   predictions_df, result, returned, http_status>>

Predict ==
    /\ pc = "predict_pending"
    /\ LET r == predict_pending(model, prep.df_pending, prep.feature_cols)
       IN  /\ predictions_df' = r.results
           /\ error' = r.error
           /\ pc' = After(r.error, "build_result")
    /\ steps' = Append(steps, "predict_pending")
    /\ UNCHANGED <<upload, tmp_exists, df, encoders, prep, model, stdout,
                   result, returned, http_status>>

\* result = {...}; return result
Return ==
    /\ pc = "build_result"
    /\ result' = BuildResult(df, prep, predictions_df)
    /\ returned' = TRUE
    /\ pc' = "finally"
    /\ UNCHANGED <<upload, steps, tmp_exists, df, encoders, prep, model, stdout,
                   predictions_df, error, http_status>>

\* finally: if tmp_path.exists(): tmp_path.unlink()
Finally ==
    /\ pc = "finally"
    /\ tmp_exists' = FALSE
    /\ pc' = "respond"
    /\ UNCHANGED <<upload, steps, df, encoders, prep, model, stdout,
                   predictions_df, result, returned, error, http_status>>

\* reports.predict_claims: return / except ValueError / except Exception
Respond ==
    /\ pc = "respond"
    /\ http_status' = IF error = NoError THEN 200
                      ELSE IF error.type = "ValueError" THEN 400
                      ELSE 500
    /\ pc' = "done"
    /\ UNCHANGED <<upload, steps, tmp_exists, df, encoders, prep, model, stdout,
                   predictions_df, result, returned, error>>

Next ==
    \/ Validate
    \/ WriteTemp
    \/ Load
    \/ Engineer
    \/ Prepare
    \/ CheckTrainingData
    \/ Train
    \/ Predict
    \/ Return
    \/ Finally
    \/ Respond

Spec == Init /\ [][Next]_vars

-----------------------------------------------------------------------------
(* Properties                                                              *)

Entered(step) == step \in Range(steps)

UploadPending == SelectSeq(upload.rows, IsPending)
UploadResolved == SelectSeq(upload.rows, IsResolved)

ClaimIDs(rows) == [i \in 1..Len(rows) |-> rows[i].ClaimID]

InsufficientData == Err("ValueError", "Insufficient training data")

\* C1: whenever predict_claims_from_bytes returns a result,
\* training_claims + pending_claims = total_claims, and once the frame is
\* partitioned every loaded record is in exactly one of df_train, df_pending.
C1_PartitionComplete ==
    /\ returned =>
         result.training_claims + result.pending_claims = result.total_claims
    /\ Entered("prepare_training_data") =>
         /\ Len(prep.df_train) + Len(prep.df_pending) = Len(upload.rows)
         /\ \A i \in 1..Len(upload.rows) :
              (upload.rows[i].ClaimID \in Range(ClaimIDs(prep.df_train)))
                # (upload.rows[i].ClaimID \in Range(ClaimIDs(prep.df_pending)))

\* a returned result over a table that holds resolved rows, pending rows and
\* a row whose Status is none of Paid, Denied, Pending
C1_Witness ==
    /\ returned
    /\ result.pending_claims > 0
    /\ \E i \in 1..Len(upload.rows) : upload.rows[i].Status = "Cancelled"

\* C2 as stated: Predicted_Status is Denied iff Denial_Probability >= 0.5,
\* else Paid, the tie included.
C2_DeniedIffAtLeastHalf ==
    \A i \in 1..Len(predictions_df.rows) :
        LET r == predictions_df.rows[i]
        IN  /\ r.Predicted_Status \in {"Paid", "Denied"}
            /\ r.Predicted_Status = "Denied"
                 <=> 2 * r.Denial_Probability >= n_estimators

\* C2 amended: Predicted_Status is Denied iff Denial_Probability > 0.5, else
\* Paid; on a tie of the two class probabilities the prediction is Paid.
C2_DeniedIffAboveHalf ==
    \A i \in 1..Len(predictions_df.rows) :
        LET r == predictions_df.rows[i]
        IN  /\ r.Predicted_Status \in {"Paid", "Denied"}
            /\ r.Predicted_Status = "Denied"
                 <=> 2 * r.Denial_Probability > n_estimators

\* a returned prediction on the tie, and one above it
C2_Witness ==
    /\ returned
    /\ \E i \in 1..Len(predictions_df.rows) :
         /\ 2 * predictions_df.rows[i].Denial_Probability = n_estimators
         /\ predictions_df.rows[i].Predicted_Status = "Paid"
    /\ \E i \in 1..Len(predictions_df.rows) :
         predictions_df.rows[i].Predicted_Status = "Denied"

MissingColumn ==
    /\ upload.valid_type
    /\ upload.header # {}
    /\ ~(Required \subseteq upload.header)

\* C3 as stated: a table whose header lacks a required column ends in a
\* schema error the caller sees as a client error (400), raised before
\* feature derivation, partitioning or fitting runs.
C3_SchemaRejectedFirst ==
    (pc = "done" /\ MissingColumn) =>
        /\ http_status = 400
        /\ error.type = "ValueError"
        /\ ~Entered("prepare_training_data")
        /\ ~Entered("train_model")

SingleClass == Entered("prepare_training_data") /\ Cardinality(Range(prep.y)) = 1

\* C4 as stated: a resolved set of one class is rejected with the
\* insufficient-data error before train_model is entered; train_model and
\* predict_pending never run on a single-class target.
C4_SingleClassRejected ==
    SingleClass =>
        /\ ~Entered("train_model")
        /\ ~Entered("predict_pending")
        /\ pc = "done" => error = InsufficientData

\* C5: a table that loads and engineers, with fewer than 2 rows whose Status
\* is not Pending, ends in the insufficient-data ValueError, raised after
\* prepare_training_data and before train_model; nothing is returned.
C5_TooFewResolved ==
    Len(UploadResolved) < 2 =>
        /\ ~Entered("train_model")
        /\ ~Entered("predict_pending")
        /\ ~returned
        /\ (pc = "done" /\ Entered("prepare_training_data")) =>
              /\ error = InsufficientData
              /\ http_status = 400
              /\ steps = <<"load_data", "engineer_features", "prepare_training_data">>

\* 1 resolved and 3 pending claims, rejected
C5_Witness ==
    /\ pc = "done"
    /\ Len(UploadResolved) = 1
    /\ Len(UploadPending) = 3
    /\ error = InsufficientData

\* C6: a returned result lists exactly one prediction per pending record, in
\* the order the pending records have in the input; a run whose model was
\* fitted and that has no pending record returns, with an empty list.
C6_OnePerPendingInOrder ==
    /\ returned => ClaimIDs(result.predictions) = ClaimIDs(UploadPending)
    /\ (pc = "done" /\ model.fitted /\ Len(UploadPending) = 0) =>
          returned /\ result.predictions = <<>> /\ http_status = 200

\* a returned result with two predictions
C6_Witness ==
    /\ returned
    /\ Len(result.predictions) >= 2
    /\ result.predictions[1].ClaimID < result.predictions[2].ClaimID

ValidCode(classes, code, value) ==
    /\ code \in 0..(Len(classes) - 1)
    /\ classes[code + 1] = value

\* C7: both encoders are fit on the full record set before it is
\* partitioned: once engineer_features has returned, the classes of each
\* encoder cover every record, every record (pending ones included) carries
\* the code of its own Type and AmountCategory, and no run fails on an
\* unseen label.
C7_EncodersCoverPending ==
    /\ error.msg # "y contains previously unseen labels"
    /\ (Entered("engineer_features") /\ pc # "finally"
          /\ (pc \in {"respond", "done"} => Entered("prepare_training_data"))) =>
         /\ Len(df.rows) = Len(upload.rows)
         /\ \A i \in 1..Len(df.rows) :
              /\ ValidCode(encoders.le_type, df.rows[i].Type_Encoded,
                           upload.rows[i].Type)
              /\ ValidCode(encoders.le_amount_cat,
                           df.rows[i].AmountCategory_Encoded,
                           AmountCategory(upload.rows[i].Amount.v))
    /\ Entered("predict_pending") =>
         \A i \in 1..Len(prep.df_pending) :
              ValidCode(encoders.le_type, prep.df_pending[i].Type_Encoded,
                        prep.df_pending[i].Type)

\* predictions returned for a pending record whose Type no resolved record has
C7_Witness ==
    /\ returned
    /\ \E i \in 1..Len(UploadPending) :
         /\ \A j \in 1..Len(UploadResolved) :
              UploadResolved[j].Type # UploadPending[i].Type
         /\ result.predictions[i].Type = UploadPending[i].Type

MalformedCell ==
    /\ upload.valid_type
    /\ Required \subseteq upload.header
    /\ \E i \in 1..Len(upload.rows) :
         ~upload.rows[i].Amount.num \/ ~upload.rows[i].Date.ok

\* C8 as stated: a record with an unparsable Amount is kept with Amount 0.0,
\* one with an unparsable Date is kept with a null timestamp; the run goes
\* on to partition the full table.
C8_MalformedValueKept ==
    (pc = "done" /\ MalformedCell) =>
        /\ Entered("prepare_training_data")
        /\ Len(df.rows) = Len(upload.rows)
        /\ \A i \in 1..Len(df.rows) :
             ~upload.rows[i].Amount.num => df.rows[i].Amount = 0

\* C9: every prediction has 0 <= Denial_Probability <= 1, Confidence =
\* max(Denial_Probability, 1 - Denial_Probability), and 0.5 <= Confidence <= 1
\* (probabilities are counted in trees out of n_estimators).
C9_ProbabilityRange ==
    \A i \in 1..Len(predictions_df.rows) :
        LET r == predictions_df.rows[i]
        IN  /\ 0 <= r.Denial_Probability
            /\ r.Denial_Probability <= n_estimators
            /\ r.Confidence = Max2(r.Denial_Probability,
                                   n_estimators - r.Denial_Probability)
            /\ n_estimators <= 2 * r.Confidence
            /\ r.Confidence <= n_estimators

\* a returned prediction whose Confidence is the probability of Paid
C9_Witness ==
    /\ returned
    /\ \E i \in 1..Len(predictions_df.rows) :
         /\ predictions_df.rows[i].Denial_Probability = 0
         /\ predictions_df.rows[i].Confidence = n_estimators

\* C10 as stated: a returned result carries the holdout accuracy train_model
\* measured and a feature_importance entry for each of the six features.
C10_MetricsReturned ==
    returned =>
        /\ result.model_metrics.accuracy = stdout.accuracy
        /\ DOMAIN result.model_metrics.feature_importance = Range(feature_cols)

DefinedCategories == {"Low", "Medium", "High"}

\* C11 as stated: the AmountCategory handed to the AmountCategory encoder is
\* Low, Medium or High for every record; an Amount outside the buckets is
\* clamped into one or fails the run, and no undefined category reaches the
\* encoder's classes or a record of the engineered frame.
C11_NoUndefinedCategory ==
    "AmountCategory" \in df.columns =>
        /\ \A i \in 1..Len(df.rows) : df.rows[i].AmountCategory \in DefinedCategories
        /\ Range(encoders.le_amount_cat) \subseteq DefinedCategories

\* C12: when predict_claims_from_bytes has finished, by return or by an
\* exception of any step, the temporary file holding the upload is gone.
C12_TempFileRemoved ==
    pc \in {"respond", "done"} => ~tmp_exists

\* a call that wrote the file and then raised from inside train_model, seen
\* after the response, with the file gone
C12_Witness ==
    /\ pc = "done"
    /\ Entered("train_model")
    /\ error.type = "ValueError"
    /\ ~returned
    /\ ~tmp_exists

====
